---- MODULE Spec2Model ----
(***************************************************************************)
(* Graph assembly and serialization engine of the Schema.org knowledge     *)
(* graph constructor (src/knowledge_graph_constructor.py) together with    *)
(* the response parser of src/schemaorg_entity_extractor.py.               *)
(*                                                                         *)
(* Strings are sequences of tokens.  A token is a one-character string     *)
(* where the code looks at characters (names, identifiers), and a literal  *)
(* piece of an f-string or an opaque label (a type, a predicate) where it  *)
(* does not; the only token that holds a line break is "\n".  A Python     *)
(* dict is a sequence of <<key, value>> pairs in insertion order.  An      *)
(* exception leaving add_text is recorded in the variable raised.          *)
(*                                                                         *)
(* The Oracle is modelled by its reply: add_text draws one reply from      *)
(* Responses.  A reply that never arrives (LLMClient.generate raising) and *)
(* query, which only formats the graph for the Oracle, are left out.       *)
(***************************************************************************)
EXTENDS Integers, Sequences, FiniteSets, TLC

\* Number of add_text calls explored.
MaxTexts == 2

\* Longest entities list and longest relations list of one Oracle response.
MaxCands == 2

VARIABLES
    entities,       \* self.entities: dict entity_key -> SchemaOrgEntity
    relations,      \* self.relations: list of SchemaOrgRelation
    texts,          \* self.texts
    nextId,         \* number of uuid4 identifiers drawn so far
    op,             \* the method called last
    response,       \* the Oracle's reply in that call (NoResponse: none asked)
    raised,         \* the exception that call left with, or "none"
    output,         \* what that call returned
    pre_entities,   \* self.entities when that call began
    pre_relations   \* self.relations when that call began

vars == <<entities, relations, texts, nextId, op, response, raised, output,
          pre_entities, pre_relations>>

-----------------------------------------------------------------------------
(* Sequences and dicts *)

RECURSIVE SeqsUpTo(_, _)
SeqsUpTo(S, n) ==
    IF n = 0 THEN {<<>>}
    ELSE LET shorter == SeqsUpTo(S, n - 1)
         IN shorter \cup {Append(s, x) : s \in shorter, x \in S}

RECURSIVE Flatten(_)
Flatten(ss) == IF ss = <<>> THEN <<>> ELSE Head(ss) \o Flatten(Tail(ss))

\* key in d
DictHas(d, k) == \E i \in 1..Len(d) : d[i][1] = k

\* position of key k in d (k is in d)
DictIndex(d, k) == CHOOSE i \in 1..Len(d) : d[i][1] = k

\* d[k]
DictGet(d, k) == d[DictIndex(d, k)][2]

\* d[k] = v: an existing key keeps its position, a new key goes last
DictSet(d, k, v) ==
    IF DictHas(d, k) THEN [d EXCEPT ![DictIndex(d, k)] = <<k, v>>]
    ELSE Append(d, <<k, v>>)

\* {**d, **e}
RECURSIVE DictUpdate(_, _)
DictUpdate(d, e) ==
    IF e = <<>> THEN d
    ELSE DictUpdate(DictSet(d, Head(e)[1], Head(e)[2]), Tail(e))

\* JSON values of an exported node: a string, or the nested object {"@id": uri}
Str(s) == <<"str", s>>
Ref(uri) == <<"ref", uri>>

-----------------------------------------------------------------------------
(* Characters and the identifier builder *)

\* \s of the regular expressions
Whitespace == {" ", "\n", "\t"}

Upper == {"A", "B", "C", "D", "E", "F"}
Lower == {"a", "b", "c", "d", "e", "f"}
Digits == {"0", "1", "2", "3", "4", "5", "6", "7", "8", "9"}

\* the class [a-zA-Z0-9\-_.]
IdChars == Upper \cup Lower \cup Digits \cup {"-", "_", "."}

\* str.lower() on one character
LowerChar(c) ==
    CASE c = "A" -> "a" [] c = "B" -> "b" [] c = "C" -> "c"
      [] c = "D" -> "d" [] c = "E" -> "e" [] c = "F" -> "f"
      [] OTHER -> c

\* str.lower()
LowerSeq(s) == [i \in 1..Len(s) |-> LowerChar(s[i])]

IsNotSpace(c) == c \notin Whitespace
IsIdChar(c) == c \in IdChars

URI_PREFIX == "urn:kg"

\* re.sub(r'\s+', '', s) then re.sub(r'[^a-zA-Z0-9\-_.]', '', s)
StripInvalid(s) == SelectSeq(SelectSeq(s, IsNotSpace), IsIdChar)

_build_uri(entity_id) == <<URI_PREFIX, ":">> \o StripInvalid(entity_id)

\* the same without the final lower-casing
_sanitize_id_keeps_case(text) == StripInvalid(text)

_sanitize_id(text) == LowerSeq(StripInvalid(text))

-----------------------------------------------------------------------------
(* Data model *)

\* str(uuid.uuid4()): a fresh identifier over [0-9a-f-], the n-th one drawn
HexDigit(n) == <<"0", "1", "2", "3", "4", "5", "6", "7", "8", "9",
                 "a", "b", "c", "d", "e", "f">>[(n % 16) + 1]

\* identifiers written with upper-case hexadecimal digits
uuid4_uppercase(n) == <<"E", "-", HexDigit(n \div 16), HexDigit(n)>>

uuid4(n) == <<"e", "-", HexDigit(n \div 16), HexDigit(n)>>

SchemaOrgEntity(n, name, schema_type, properties) ==
    [entity_id |-> uuid4(n),
     name |-> name,
     schema_type |-> schema_type,
     schema_uri |-> <<"https://schema.org/", schema_type>>,
     properties |-> properties]

SchemaOrgRelation(subject_id, predicate, object_id) ==
    [subject_id |-> subject_id,
     predicate |-> predicate,
     predicate_uri |-> <<"https://schema.org/", predicate>>,
     object_id |-> object_id]

-----------------------------------------------------------------------------
(* The Oracle's reply and its parsing *)

\* None, and every other falsy value the code tests with "if x"
None == <<>>

Truthy(x) == x # None

\* one item of the "entities" list: a JSON object with some of the keys
\* name, type, properties, or a JSON value that is no object
EntityData(name, type, properties) ==
    [isObject |-> TRUE, has |-> {"name", "type", "properties"},
     name |-> name, type |-> type, properties |-> properties]

\* one item of the "relations" list
RelData(subject, predicate, object) ==
    [isObject |-> TRUE, has |-> {"subject", "predicate", "object"},
     subject |-> subject, predicate |-> predicate, object |-> object]

Without(item, key) == [item EXCEPT !.has = @ \ {key}]

NotAnObject(item) == [item EXCEPT !.isObject = FALSE, !.has = {}]

\* the text the Oracle returned: its fencing, what json.loads makes of the
\* body, and for a JSON object the two lists it carries
OracleResponse(fence, kind, has, ents, rels) ==
    [fence |-> fence, kind |-> kind, has |-> has, entities |-> ents, relations |-> rels]

NoResponse == OracleResponse("none", "none", {}, <<>>, <<>>)

\* the body between the fences, for "```json", "```" and unfenced text alike
StripFence(resp) == [resp EXCEPT !.fence = "none"]

\* data.get(key, [])
GetList(data, key) ==
    IF key \in data.has THEN (IF key = "entities" THEN data.entities ELSE data.relations)
    ELSE <<>>

_parse_response(resp) ==
    LET data == StripFence(resp)
    IN  IF data.kind = "notjson"
        THEN [raised |-> "none", entities |-> <<>>, relations |-> <<>>]
        ELSE IF data.kind # "object"
        THEN [raised |-> "AttributeError", entities |-> <<>>, relations |-> <<>>]
        ELSE [raised |-> "none",
              entities |-> GetList(data, "entities"),
              relations |-> GetList(data, "relations")]

-----------------------------------------------------------------------------
(* add_text *)

entity_key_of(entity) == <<entity.schema_type, ":">> \o _sanitize_id(entity.name)

\* the stored entity is replaced by every later candidate of its key
StoreEntityOverwrites(ents, entity_key, entity) == DictSet(ents, entity_key, entity)

\* a later candidate of a stored key has its properties merged into the stored entity
StoreEntityMerges(ents, entity_key, entity) ==
    IF ~DictHas(ents, entity_key) THEN DictSet(ents, entity_key, entity)
    ELSE DictSet(ents, entity_key,
             [DictGet(ents, entity_key) EXCEPT
                  !.properties = DictUpdate(@, entity.properties)])

\* if entity_key not in self.entities: self.entities[entity_key] = entity
StoreEntity(ents, entity_key, entity) ==
    IF ~DictHas(ents, entity_key) THEN DictSet(ents, entity_key, entity) ELSE ents

\* the loop over the entity candidates; it ends at the first exception
RECURSIVE CreateEntities(_, _, _)
CreateEntities(ents, n, cands) ==
    IF cands = <<>> THEN [entities |-> ents, nextId |-> n, raised |-> "none"]
    ELSE LET entity_data == Head(cands)
         IN  IF ~entity_data.isObject
             THEN [entities |-> ents, nextId |-> n, raised |-> "TypeError"]
             ELSE IF "name" \notin entity_data.has \/ "type" \notin entity_data.has
             THEN [entities |-> ents, nextId |-> n, raised |-> "KeyError"]
             ELSE LET entity == SchemaOrgEntity(n, entity_data.name, entity_data.type,
                                    IF "properties" \in entity_data.has
                                    THEN entity_data.properties ELSE <<>>)
                  IN  CreateEntities(StoreEntity(ents, entity_key_of(entity), entity),
                                     n + 1, Tail(cands))

\* the last entity of that name instead of the first
_find_entity_key_last(ents, name) ==
    LET hits == {i \in 1..Len(ents) : _sanitize_id(ents[i][2].name) = _sanitize_id(name)}
    IN  IF hits = {} THEN None
        ELSE ents[CHOOSE i \in hits : \A j \in hits : j <= i][1]

_find_entity_key(ents, name) ==
    LET hits == {i \in 1..Len(ents) : _sanitize_id(ents[i][2].name) = _sanitize_id(name)}
    IN  IF hits = {} THEN None
        ELSE ents[CHOOSE i \in hits : \A j \in hits : i <= j][1]

\* the loop over the relation candidates; it ends at the first exception
RECURSIVE CreateRelations(_, _, _)
CreateRelations(ents, rels, cands) ==
    IF cands = <<>> THEN [relations |-> rels, raised |-> "none"]
    ELSE LET rel_data == Head(cands)
         IN  IF ~rel_data.isObject
             THEN [relations |-> rels, raised |-> "TypeError"]
             ELSE IF "subject" \notin rel_data.has \/ "object" \notin rel_data.has
             THEN [relations |-> rels, raised |-> "KeyError"]
             ELSE LET subject_key == _find_entity_key(ents, rel_data.subject)
                      object_key == _find_entity_key(ents, rel_data.object)
                  IN  IF Truthy(subject_key) /\ Truthy(object_key)
                      THEN IF "predicate" \notin rel_data.has
                           THEN [relations |-> rels, raised |-> "KeyError"]
                           ELSE CreateRelations(ents,
                                    Append(rels, SchemaOrgRelation(
                                        DictGet(ents, subject_key).entity_id,
                                        rel_data.predicate,
                                        DictGet(ents, object_key).entity_id)),
                                    Tail(cands))
                      ELSE CreateRelations(ents, rels, Tail(cands))

-----------------------------------------------------------------------------
(* Exports *)

\* the node of one entity: "@id", "@type", "name", then **entity.properties
NodeOf(entity) ==
    DictUpdate(<< <<"@id", Str(_build_uri(entity.entity_id))>>,
                  <<"@type", Str(<<entity.schema_type>>)>>,
                  <<"name", Str(entity.name)>> >>,
               entity.properties)

\* entity_uri_map.get(entity_id): the URI, or None for an id of no stored entity
EntityUri(ents, entity_id) ==
    IF \E i \in 1..Len(ents) : ents[i][2].entity_id = entity_id
    THEN _build_uri(entity_id) ELSE None

\* for node in graph: if node["@id"] == subject_uri: node[predicate] = ...; break
AttachRelation(graph, subject_uri, predicate, object_uri) ==
    LET hits == {i \in 1..Len(graph) : DictGet(graph[i], "@id") = Str(subject_uri)}
    IN  IF hits = {} THEN graph
        ELSE LET first == CHOOSE i \in hits : \A j \in hits : i <= j
             IN  [graph EXCEPT ![first] = DictSet(@, predicate, Ref(object_uri))]

RECURSIVE AttachRelations(_, _, _)
AttachRelations(graph, ents, rels) ==
    IF rels = <<>> THEN graph
    ELSE LET relation == Head(rels)
             subject_uri == EntityUri(ents, relation.subject_id)
             object_uri == EntityUri(ents, relation.object_id)
         IN  AttachRelations(
                 IF Truthy(subject_uri) /\ Truthy(object_uri)
                 THEN AttachRelation(graph, subject_uri, relation.predicate, object_uri)
                 ELSE graph,
                 ents, Tail(rels))

\* one node per sanitized entity name: a later entity of a name already seen gets none
RECURSIVE GraphNodesByName(_)
GraphNodesByName(ents) ==
    IF ents = <<>> THEN <<>>
    ELSE LET n == Len(ents)
             rest == GraphNodesByName(SubSeq(ents, 1, n - 1))
         IN  IF \E i \in 1..(n - 1) :
                    _sanitize_id(ents[i][2].name) = _sanitize_id(ents[n][2].name)
             THEN rest ELSE Append(rest, NodeOf(ents[n][2]))

GraphNodes(ents) == [i \in 1..Len(ents) |-> NodeOf(ents[i][2])]

to_jsonld ==
    [context |-> "https://schema.org",
     graph |-> AttachRelations(GraphNodes(entities), entities, relations)]

\* "\n".join(lines)
RECURSIVE JoinLines(_)
JoinLines(lines) ==
    IF lines = <<>> THEN <<>>
    ELSE IF Len(lines) = 1 THEN Head(lines)
    ELSE Head(lines) \o <<"\n">> \o JoinLines(Tail(lines))

EntityLines(entity) ==
    << <<"kg:">> \o _sanitize_id(entity.entity_id)
           \o <<" a schema:", entity.schema_type, " ;">>,
       <<"    schema:name \"">> \o entity.name \o <<"\" .">>,
       <<>> >>

RelationLine(relation) ==
    <<"kg:">> \o _sanitize_id(relation.subject_id)
        \o <<" schema:", relation.predicate, " kg:">>
        \o _sanitize_id(relation.object_id) \o <<" .">>

to_rdf ==
    JoinLines(<< <<"@prefix schema: <https://schema.org/> .">>,
                 <<"@prefix kg: <", URI_PREFIX, ":> .">>,
                 <<>> >>
              \o Flatten([i \in 1..Len(entities) |-> EntityLines(entities[i][2])])
              \o [i \in 1..Len(relations) |-> RelationLine(relations[i])])

get_stats ==
    [entities |-> Len(entities), relations |-> Len(relations),
     texts_processed |-> Len(texts)]

-----------------------------------------------------------------------------
(* What the Oracle may reply *)

Person == "Person"
Organization == "Organization"

EntityCandidates ==
    { EntityData(<<"A">>, Person, <<>>),
      EntityData(<<"a", " ", "!">>, Person, << <<"jobTitle", Str(<<"x">>)>> >>),
      EntityData(<<"a", "\n">>, Organization, << <<"@id", Str(<<"x">>)>> >>),
      EntityData(<<"b">>, Organization, <<>>) }

RelationCandidates ==
    { RelData(<<"A">>, "worksFor", <<"b">>),
      RelData(<<"a">>, "worksFor", <<"A", ".">>),
      RelData(<<"b">>, "knows", <<"c">>) }

MalformedEntityCandidates ==
    { EntityData(<<"b">>, Person, <<>>),
      Without(EntityData(<<"A">>, Person, <<>>), "name"),
      Without(EntityData(<<"A">>, Person, <<>>), "type"),
      NotAnObject(EntityData(<<"A">>, Person, <<>>)) }

MalformedRelationCandidates ==
    { RelData(<<"b">>, "knows", <<"A">>),
      Without(RelData(<<"b">>, "knows", <<"b">>), "predicate"),
      Without(RelData(<<"b">>, "knows", <<"b">>), "object"),
      NotAnObject(RelData(<<"b">>, "knows", <<"b">>)) }

\* replies that are no JSON object: unparsable text, and JSON of another kind
NotStructured == {"notjson", "array", "string", "number", "null"}

Responses ==
    { OracleResponse("none", "object", {"entities", "relations"}, e, r) :
          e \in SeqsUpTo(EntityCandidates, MaxCands),
          r \in SeqsUpTo(RelationCandidates, MaxCands) }
    \cup
    { OracleResponse("none", "object", {"entities", "relations"}, e, r) :
          e \in SeqsUpTo(MalformedEntityCandidates, MaxCands),
          r \in SeqsUpTo(MalformedRelationCandidates, MaxCands) }
    \cup
    { OracleResponse(f, k, {}, <<>>, <<>>) :
          f \in {"none", "json", "plain"}, k \in NotStructured \cup {"object"} }

-----------------------------------------------------------------------------
(* The session *)

Init ==
    /\ entities = <<>>
    /\ relations = <<>>
    /\ texts = <<>>
    /\ nextId = 0
    /\ op = "init"
    /\ response = NoResponse
    /\ raised = "none"
    /\ output = None
    /\ pre_entities = <<>>
    /\ pre_relations = <<>>

\* the stores as add_text leaves them on the reply resp
AddTextResult(resp) ==
    LET parsed == _parse_response(resp)
        created == CreateEntities(entities, nextId, parsed.entities)
        related == CreateRelations(created.entities, relations, parsed.relations)
    IN  IF parsed.raised # "none"
        THEN [entities |-> entities, relations |-> relations, nextId |-> nextId,
              raised |-> parsed.raised]
        ELSE IF created.raised # "none"
        THEN [entities |-> created.entities, relations |-> relations,
              nextId |-> created.nextId, raised |-> created.raised]
        ELSE [entities |-> created.entities, relations |-> related.relations,
              nextId |-> created.nextId, raised |-> related.raised]

AddText(resp) ==
    /\ Len(texts) < MaxTexts
    /\ texts' = Append(texts, "text")
    /\ response' = resp
    /\ LET result == AddTextResult(resp)
       IN  /\ entities' = result.entities
           /\ relations' = result.relations
           /\ nextId' = result.nextId
           /\ raised' = result.raised
    /\ op' = "add_text"
    /\ output' = None
    /\ pre_entities' = entities
    /\ pre_relations' = relations

\* an operation that only reads the graph and returns result
ReadOnly(name, result) ==
    /\ op' = name
    /\ output' = result
    /\ response' = NoResponse
    /\ raised' = "none"
    /\ pre_entities' = entities
    /\ pre_relations' = relations
    /\ UNCHANGED <<entities, relations, texts, nextId>>

ToJsonld == ReadOnly("to_jsonld", to_jsonld)

ToRdf == ReadOnly("to_rdf", to_rdf)

GetStats == ReadOnly("get_stats", get_stats)

Finalize == ReadOnly("finalize", <<Len(entities), Len(relations)>>)

Next ==
    \/ \E resp \in Responses : AddText(resp)
    \/ ToJsonld
    \/ ToRdf
    \/ GetStats
    \/ Finalize

Spec == Init /\ [][Next]_vars

-----------------------------------------------------------------------------
(* Vocabulary of the properties below *)

\* canonicalize: no whitespace, nothing outside [A-Za-z0-9\-_.], lower case
Canonical(text) ==
    LET kept == SelectSeq(text, IsIdChar)
    IN  [i \in 1..Len(kept) |-> LowerChar(kept[i])]

DedupKey(entity) == <<entity.schema_type, Canonical(entity.name)>>

DedupKeys(ents) == {DedupKey(ents[i][2]) : i \in 1..Len(ents)}

HasEntityId(ents, id) == \E i \in 1..Len(ents) : ents[i][2].entity_id = id

WellFormedEntity(c) == c.isObject /\ {"name", "type"} \subseteq c.has

\* the dedup key of a well-formed entity candidate
CandidateKey(c) == <<c.type, Canonical(c.name)>>

CandidateProperties(c) == IF "properties" \in c.has THEN c.properties ELSE <<>>

\* the last operation was an add_text whose reply parsed to a JSON object
Ingested == op = "add_text" /\ response.kind = "object"

-----------------------------------------------------------------------------
(* C1 *)

\* C1: the entity store holds at most one entity per dedup key
\* (type, canonicalize(name)); an add_text call adds no more entities than its
\* candidates bring new dedup keys, so a candidate that differs from a stored
\* entity only in case, whitespace or punctuation adds none; and the entity_id
\* stored under a dedup key before an operation is the one stored after it.
C1_OneEntityPerDedupKey ==
    /\ \A i, j \in 1..Len(entities) :
           DedupKey(entities[i][2]) = DedupKey(entities[j][2]) => i = j
    /\ \A i \in 1..Len(pre_entities) :
           \E j \in 1..Len(entities) :
               /\ DedupKey(entities[j][2]) = DedupKey(pre_entities[i][2])
               /\ entities[j][2].entity_id = pre_entities[i][2].entity_id
    /\ Len(entities) <=
           Cardinality(DedupKeys(pre_entities) \cup
               {CandidateKey(response.entities[k]) :
                    k \in {k \in 1..Len(response.entities) :
                               WellFormedEntity(response.entities[k])}})

\* an add_text call received a candidate of a stored type whose name is spelt
\* differently from the stored one but canonicalizes to it, and stored nothing
C1_Witness ==
    /\ Ingested /\ raised = "none"
    /\ Len(pre_entities) > 0
    /\ Len(entities) = Len(pre_entities)
    /\ \E k \in 1..Len(response.entities), i \in 1..Len(pre_entities) :
           /\ response.entities[k].type = pre_entities[i][2].schema_type
           /\ response.entities[k].name # pre_entities[i][2].name
           /\ Canonical(response.entities[k].name) = Canonical(pre_entities[i][2].name)

-----------------------------------------------------------------------------
(* C2 *)

\* C2: referential integrity: the subject_id and the object_id of every stored
\* relation are entity_ids of stored entities.  The stores only grow and a call
\* appends its relations after it has stored its entities, so the ids were in
\* the store when the relation was appended.
C2_ReferentialIntegrity ==
    \A i \in 1..Len(relations) :
        /\ HasEntityId(entities, relations[i].subject_id)
        /\ HasEntityId(entities, relations[i].object_id)

\* a relation between two different entities was appended by the last call
C2_Witness ==
    /\ Ingested
    /\ Len(relations) > Len(pre_relations)
    /\ relations[Len(relations)].subject_id # relations[Len(relations)].object_id

-----------------------------------------------------------------------------
(* C3 *)

\* C3: add_text leaves every stored entity as it was (entity_id, name, type,
\* uri, properties, position), and an entity it stores carries the name and the
\* properties of the first candidate of its dedup key in the reply: those of a
\* later candidate of a stored key are discarded.
C3_DuplicateLeavesEntityUnchanged ==
    /\ \A i \in 1..Len(pre_entities) :
           i <= Len(entities) /\ entities[i] = pre_entities[i]
    /\ \A i \in (Len(pre_entities) + 1)..Len(entities) :
           LET cands == response.entities
               same == {k \in 1..Len(cands) :
                           /\ WellFormedEntity(cands[k])
                           /\ CandidateKey(cands[k]) = DedupKey(entities[i][2])}
           IN  /\ same # {}
               /\ LET first == CHOOSE k \in same : \A m \in same : k <= m
                  IN  /\ entities[i][2].name = cands[first].name
                      /\ entities[i][2].properties = CandidateProperties(cands[first])
                      /\ entities[i][2].schema_uri =
                             <<"https://schema.org/", cands[first].type>>

\* add_text received a candidate of a stored dedup key with other properties
C3_Witness ==
    /\ Ingested /\ raised = "none"
    /\ \E k \in 1..Len(response.entities), i \in 1..Len(pre_entities) :
           /\ WellFormedEntity(response.entities[k])
           /\ CandidateKey(response.entities[k]) = DedupKey(pre_entities[i][2])
           /\ CandidateProperties(response.entities[k]) # pre_entities[i][2].properties
           /\ entities[i][2].properties = pre_entities[i][2].properties

-----------------------------------------------------------------------------
(* C4 *)

\* a relation candidate that names two stored entities
Resolves(c, ents) ==
    /\ c.isObject
    /\ {"subject", "object"} \subseteq c.has
    /\ \E i \in 1..Len(ents) : Canonical(ents[i][2].name) = Canonical(c.subject)
    /\ \E i \in 1..Len(ents) : Canonical(ents[i][2].name) = Canonical(c.object)

\* C4: in an add_text call whose entity candidates were all stored or found,
\* the relation list grows by exactly the number of relation candidates whose
\* subject and object both name a stored entity: an unresolved candidate
\* appends nothing and the other candidates of the call are still processed.
C4_UnresolvedRelationsSkipped ==
    (Ingested /\ \A k \in 1..Len(response.entities) : WellFormedEntity(response.entities[k]))
    => Len(relations) = Len(pre_relations) +
           Cardinality({k \in 1..Len(response.relations) :
                            Resolves(response.relations[k], entities)})

-----------------------------------------------------------------------------
(* C5 *)

\* C5: when the Oracle's reply is no valid structured data (text that is not
\* JSON, or JSON that is no object), add_text returns normally and leaves the
\* entity store and the relation list unchanged.
C5_UnstructuredReplyIsNoOp ==
    (op = "add_text" /\ response.kind \in NotStructured)
    => /\ raised = "none"
       /\ entities = pre_entities
       /\ relations = pre_relations

-----------------------------------------------------------------------------
(* C6 *)

\* C6: once the Oracle's reply has parsed to a JSON object, add_text raises
\* nothing, whatever the items of its entities and relations lists are.
C6_AddTextNeverRaises == Ingested => raised = "none"

-----------------------------------------------------------------------------
(* C7 *)

\* the key k of an entity's node is written by one of its properties or by a relation
Overwritable(entity, k) ==
    \/ DictHas(entity.properties, k)
    \/ \E i \in 1..Len(relations) : relations[i].predicate = k

\* C7: the @graph array of to_jsonld has exactly one node per stored entity, in
\* insertion order: its length is the entity store size that get_stats
\* reports, and its i-th node carries the @id, @type and name of the i-th
\* stored entity (where no property or predicate of that name overwrote them).
C7_OneNodePerEntity ==
    LET graph == to_jsonld.graph
    IN  /\ Len(graph) = Len(entities)
        /\ Len(graph) = get_stats.entities
        /\ \A i \in 1..Len(entities) :
               LET entity == entities[i][2]
               IN  /\ i <= Len(graph)
                   /\ ~Overwritable(entity, "@id")
                          => DictGet(graph[i], "@id") = Str(_build_uri(entity.entity_id))
                   /\ ~Overwritable(entity, "@type")
                          => DictGet(graph[i], "@type") = Str(<<entity.schema_type>>)
                   /\ ~Overwritable(entity, "name")
                          => DictGet(graph[i], "name") = Str(entity.name)

\* to_jsonld has returned the graph of a store in which two entities share a
\* sanitized name and a relation is stored
C7_Witness ==
    /\ op = "to_jsonld"
    /\ Len(output.graph) = Len(entities)
    /\ Len(relations) > 0
    /\ \E i, j \in 1..Len(entities) :
           i < j /\ _sanitize_id(entities[i][2].name) = _sanitize_id(entities[j][2].name)

-----------------------------------------------------------------------------
(* C8 *)

\* a later relation of the same subject and predicate
Overwritten(i) ==
    \E j \in (i + 1)..Len(relations) :
        /\ relations[j].subject_id = relations[i].subject_id
        /\ relations[j].predicate = relations[i].predicate

\* C8: in the to_jsonld output every stored relation between stored entities,
\* unless a later relation of the same subject and predicate overwrote it, is
\* the field predicate -> {"@id": build_uri(object_id)} of its subject's node,
\* and a node carries no reference that is not a relation of its own entity.
C8_RelationsOnSubjectNode ==
    LET graph == to_jsonld.graph
    IN  /\ \A i \in 1..Len(relations) :
               (/\ HasEntityId(entities, relations[i].subject_id)
                /\ HasEntityId(entities, relations[i].object_id)
                /\ ~Overwritten(i))
               => \E k \in 1..Len(entities) :
                      /\ entities[k][2].entity_id = relations[i].subject_id
                      /\ k <= Len(graph)
                      /\ DictHas(graph[k], relations[i].predicate)
                      /\ DictGet(graph[k], relations[i].predicate)
                             = Ref(_build_uri(relations[i].object_id))
        /\ \A k \in 1..Len(graph) : \A f \in 1..Len(graph[k]) :
               graph[k][f][2][1] = "ref"
               => \E i \in 1..Len(relations) :
                      /\ k <= Len(entities)
                      /\ relations[i].subject_id = entities[k][2].entity_id
                      /\ relations[i].predicate = graph[k][f][1]
                      /\ Ref(_build_uri(relations[i].object_id)) = graph[k][f][2]

-----------------------------------------------------------------------------
(* C9 *)

\* text.split("\n")
RECURSIVE SplitLines(_)
SplitLines(text) ==
    LET breaks == {i \in 1..Len(text) : text[i] = "\n"}
    IN  IF breaks = {} THEN <<text>>
        ELSE LET first == CHOOSE i \in breaks : \A j \in breaks : i <= j
             IN  <<SubSeq(text, 1, first - 1)>>
                     \o SplitLines(SubSeq(text, first + 1, Len(text)))

\* C9: the to_rdf output starts with the two @prefix lines, and the number of
\* non-empty lines after them is 2 * (stored entities) + (stored relations).
C9_TurtleLineCount ==
    LET lines == SplitLines(to_rdf)
    IN  /\ Len(lines) >= 2
        /\ lines[1] = <<"@prefix schema: <https://schema.org/> .">>
        /\ lines[2] = <<"@prefix kg: <", "urn:kg", ":> .">>
        /\ Cardinality({i \in 3..Len(lines) : lines[i] # <<>>})
               = 2 * Len(entities) + Len(relations)

-----------------------------------------------------------------------------
(* C10 *)

\* position of the earliest inserted entity whose name canonicalizes like name; 0: none
FirstOfName(ents, name) ==
    LET hits == {i \in 1..Len(ents) : Canonical(ents[i][2].name) = Canonical(name)}
    IN  IF hits = {} THEN 0 ELSE CHOOSE i \in hits : \A j \in hits : i <= j

\* the names the Oracle's candidates use
ProbeNames ==
    {c.name : c \in EntityCandidates \cup MalformedEntityCandidates}
    \cup {c.subject : c \in RelationCandidates \cup MalformedRelationCandidates}
    \cup {c.object : c \in RelationCandidates \cup MalformedRelationCandidates}

\* C10: _find_entity_key(name) is the key of the earliest inserted entity whose
\* canonicalized name is canonicalize(name), whatever its type, and None when
\* there is none; and every relation an add_text call appends comes from a
\* candidate of its reply and joins the earliest inserted entities of the
\* candidate's subject and object names.
C10_FirstStoredWins ==
    /\ \A name \in ProbeNames :
           _find_entity_key(entities, name) =
               IF FirstOfName(entities, name) = 0 THEN None
               ELSE entities[FirstOfName(entities, name)][1]
    /\ \A j \in (Len(pre_relations) + 1)..Len(relations) :
           \E k \in 1..Len(response.relations) :
               LET c == response.relations[k]
                   s == FirstOfName(entities, c.subject)
                   o == FirstOfName(entities, c.object)
               IN  /\ c.isObject /\ c.has = {"subject", "predicate", "object"}
                   /\ s # 0 /\ o # 0
                   /\ relations[j].predicate = c.predicate
                   /\ relations[j].subject_id = entities[s][2].entity_id
                   /\ relations[j].object_id = entities[o][2].entity_id

\* two entities of different types, stored by an earlier call, share a canonical
\* name, and the last call has bound a relation naming it to the first of them
C10_Witness ==
    /\ Ingested
    /\ Len(relations) > Len(pre_relations)
    /\ \E i, j \in 1..Len(pre_entities) :
           /\ i < j
           /\ pre_entities[i][2].schema_type # pre_entities[j][2].schema_type
           /\ Canonical(pre_entities[i][2].name) = Canonical(pre_entities[j][2].name)
           /\ relations[Len(relations)].subject_id = entities[i][2].entity_id

-----------------------------------------------------------------------------
(* C11 *)

\* the relation candidates that carry a predicate and name two stored
\* entities, in candidate order
ResolvableCandidates(cands, ents) ==
    LET Test(c) == Resolves(c, ents) /\ "predicate" \in c.has
    IN  SelectSeq(cands, Test)

\* C11: the relation list is append-only and not deduplicated: the list before
\* an operation is a prefix of the list after it, the read-only operations
\* leave it as it is, and an add_text call whose entity candidates were all
\* stored or found appends exactly one relation per resolvable relation
\* candidate, in candidate order, whether or not the same triple is stored.
C11_RelationsAppendOnly ==
    /\ Len(pre_relations) <= Len(relations)
    /\ SubSeq(relations, 1, Len(pre_relations)) = pre_relations
    /\ op \in {"to_jsonld", "to_rdf", "get_stats", "finalize"} => relations = pre_relations
    /\ (Ingested /\ \A k \in 1..Len(response.entities) :
                        WellFormedEntity(response.entities[k]))
       => LET expected == ResolvableCandidates(response.relations, entities)
              appended == SubSeq(relations, Len(pre_relations) + 1, Len(relations))
          IN  /\ Len(appended) = Len(expected)
              /\ \A j \in 1..Len(expected) :
                     /\ appended[j].subject_id =
                            entities[FirstOfName(entities, expected[j].subject)][2].entity_id
                     /\ appended[j].object_id =
                            entities[FirstOfName(entities, expected[j].object)][2].entity_id
                     /\ appended[j].predicate = expected[j].predicate

-----------------------------------------------------------------------------
(* C12 *)

\* the local name to_rdf writes for an entity: what stands between "kg:" and
\* " a schema:" in its type line
RdfLocalName(entity) ==
    LET line == EntityLines(entity)[1]
    IN  SubSeq(line, 2, Len(line) - 3)

\* the @id to_jsonld computes for an entity: its entry of entity_uri_map
JsonldId(entity) == EntityUri(entities, entity.entity_id)

\* C12: the two exports identify every stored entity alike: "urn:kg:" followed
\* by the local name to_rdf writes for it is the @id to_jsonld computes for it,
\* and two different stored entities differ in both identifiers.
C12_ExportsAgreeOnIdentifiers ==
    /\ \A i \in 1..Len(entities) :
           LET entity == entities[i][2]
           IN  /\ EntityLines(entity)[1] =
                      <<"kg:">> \o RdfLocalName(entity)
                          \o <<" a schema:", entity.schema_type, " ;">>
               /\ <<"urn:kg", ":">> \o RdfLocalName(entity) = JsonldId(entity)
    /\ \A i, j \in 1..Len(entities) :
           i # j => /\ RdfLocalName(entities[i][2]) # RdfLocalName(entities[j][2])
                    /\ JsonldId(entities[i][2]) # JsonldId(entities[j][2])

\* to_rdf has returned the text of a store of several entities whose
\* identifiers hold letters and a hyphen
C12_Witness ==
    /\ op = "to_rdf"
    /\ Len(entities) >= 2
    /\ \A i \in 1..Len(entities) :
           /\ \E k \in 1..Len(entities[i][2].entity_id) :
                  entities[i][2].entity_id[k] \in Lower
           /\ \E k \in 1..Len(entities[i][2].entity_id) :
                  entities[i][2].entity_id[k] = "-"
           /\ Len(RdfLocalName(entities[i][2])) = Len(entities[i][2].entity_id)

====
